---------------------------- MODULE Spec2Model ----------------------------
(***************************************************************************)
(* RGATreeList of pkg/document/json/rga_tree_list.go: a replicated growable *)
(* array kept as a doubly linked list of nodes (tombstones included), an   *)
(* order-statistic index over the same nodes and a map from creation       *)
(* tickets to nodes.                                                       *)
(*                                                                         *)
(* Representation.  The chain dummyHead, dummyHead.next, ... is kept as     *)
(* the sequence `nodes` of the elements it visits, so a node is named by   *)
(* its place in the chain (1 is dummyHead, 0 is the nil pointer) and every  *)
(* reference to a node (last, the map's values, the index's entries) is    *)
(* renumbered when a node is linked or unlinked before it.  A ticket is a   *)
(* natural number, InitialTicket the least; an optional ticket (a pointer) *)
(* is the empty sequence (nil) or a one-element sequence.  A panic is the   *)
(* field err of the list: the operation stops where the code panics and    *)
(* nothing runs afterwards.                                                *)
(***************************************************************************)
EXTENDS Integers, Sequences, FiniteSets, TLC

VARIABLES a, b, lastOp, phase, issued, doneA, doneB

vars == <<a, b, lastOp, phase, issued, doneA, doneB>>

(***************************************************************************)
(* Bounds of the model.                                                    *)
(***************************************************************************)
MaxTicket == 3
MaxDeleteTicket == 2
MaxNodes == 2
MaxAdds == 4
MaxBuild == 2
MaxDupNodes == 3
MaxConcurrent == 2
MaxGC == 3
MaxGCMove == 1

InitialTicket == 0

Tickets == 1..MaxTicket
AnyTicket == InitialTicket..MaxTicket
\* Deletion tickets are compared with each other only.
DeleteTickets == 1..MaxDeleteTicket

Nil == <<>>
Some(t) == <<t>>

(***************************************************************************)
(* Ticket and Element: the capabilities the list reads.                    *)
(***************************************************************************)
After(t, u) == t > u

NewPrimitive(createdAt) ==
    [createdAt |-> createdAt, removedAt |-> Nil, movedAt |-> Nil]

ElemRemove(elem, deletedAt) ==
    IF elem.removedAt = Nil \/ After(deletedAt, elem.removedAt[1])
    THEN [elem |-> [elem EXCEPT !.removedAt = Some(deletedAt)], changed |-> TRUE]
    ELSE [elem |-> elem, changed |-> FALSE]

SetMovedAt(elem, executedAt) == [elem EXCEPT !.movedAt = Some(executedAt)]

ElemMarshal(elem) == ToString(elem.createdAt)

(***************************************************************************)
(* RGATreeListNode.                                                        *)
(***************************************************************************)
PositionedAt(n) == IF n.movedAt # Nil THEN n.movedAt[1] ELSE n.createdAt

isRemoved(n) == n.removedAt # Nil

NodeLen(n) == IF isRemoved(n) THEN 0 ELSE 1

\* Renumbering of a node reference when a node is linked right after place k,
\* or the node at place k is unlinked.
Up(p, k) == IF p > k THEN p + 1 ELSE p
Down(p, k) == IF p > k THEN p - 1 ELSE p

newRGATreeListNodeAfter(nodes, prev, elem) ==
    SubSeq(nodes, 1, prev) \o <<elem>> \o SubSeq(nodes, prev + 1, Len(nodes))

Unlink(nodes, node) ==
    SubSeq(nodes, 1, node - 1) \o SubSeq(nodes, node + 1, Len(nodes))

(***************************************************************************)
(* The order-statistic index (pkg/splay, outside this file): the nodes in  *)
(* index order, each with the weight the index last computed for it, and   *)
(* the node at the root.                                                   *)
(***************************************************************************)
NewTree(node, weight) ==
    [order |-> <<[node |-> node, weight |-> weight]>>, root |-> node]

TreePlace(tree, node) ==
    CHOOSE i \in 1..Len(tree.order) : tree.order[i].node = node

RECURSIVE TreeWeightBefore(_, _)
TreeWeightBefore(tree, i) ==
    IF i <= 1 THEN 0
    ELSE TreeWeightBefore(tree, i - 1) + tree.order[i - 1].weight

TreeRenumberUp(tree, k) ==
    [order |-> [i \in 1..Len(tree.order) |->
                   [tree.order[i] EXCEPT !.node = Up(@, k)]],
     root |-> Up(tree.root, k)]

TreeRenumberDown(tree, k) ==
    [order |-> [i \in 1..Len(tree.order) |->
                   [tree.order[i] EXCEPT !.node = Down(@, k)]],
     root |-> Down(tree.root, k)]

\* Find(rank): rank 0 is the first node of the index with offset 0; a rank
\* k >= 1 is the node holding the k-th unit of weight, with the offset of the
\* unit inside it.  A rank past the total weight is out of bound.
TreeFind(tree, idx) ==
    IF idx = 0
    THEN [ok |-> TRUE, node |-> tree.order[1].node, offset |-> 0]
    ELSE LET hits == {i \in 1..Len(tree.order) :
                         /\ TreeWeightBefore(tree, i) < idx
                         /\ idx <= TreeWeightBefore(tree, i) + tree.order[i].weight}
         IN IF hits = {}
            THEN [ok |-> FALSE, node |-> 0, offset |-> 0]
            ELSE LET i == CHOOSE j \in hits : TRUE
                 IN [ok |-> TRUE, node |-> tree.order[i].node,
                     offset |-> idx - TreeWeightBefore(tree, i)]

\* InsertAfter(prev, new): new follows prev in index order and becomes the root.
TreeInsertAfter(tree, prev, node, weight) ==
    LET i == TreePlace(tree, prev)
    IN [order |-> SubSeq(tree.order, 1, i) \o <<[node |-> node, weight |-> weight]>>
                    \o SubSeq(tree.order, i + 1, Len(tree.order)),
        root |-> node]

\* Delete(node): the node leaves the index; its predecessor in index order
\* (the greatest node of its left subtree once it is at the root) is the new root.
TreeDelete(tree, node) ==
    LET i == TreePlace(tree, node)
        rest == SubSeq(tree.order, 1, i - 1) \o SubSeq(tree.order, i + 1, Len(tree.order))
    IN [order |-> rest,
        root |-> IF i > 1 THEN tree.order[i - 1].node
                 ELSE IF rest = <<>> THEN 0 ELSE rest[1].node]

\* Splay(node): the node is rotated to the root and its weight is recomputed
\* from the length its list node reports now.
TreeSplay(tree, node, weight) ==
    LET i == TreePlace(tree, node)
    IN [order |-> [tree.order EXCEPT ![i].weight = weight], root |-> node]

(***************************************************************************)
(* RGATreeList.                                                            *)
(***************************************************************************)
dummyValue == [createdAt |-> InitialTicket, removedAt |-> Some(InitialTicket), movedAt |-> Nil]

dummyHead == 1

NewRGATreeList ==
    [nodes |-> <<dummyValue>>,
     last |-> dummyHead,
     size |-> 0,
     nodeMapByIndex |-> NewTree(dummyHead, NodeLen(dummyValue)),
     nodeMapByCreatedAt |-> [k \in {InitialTicket} |-> dummyHead],
     err |-> "none"]

Panic(l, why) == [l EXCEPT !.err = why]

Known(l, createdAt) == createdAt \in DOMAIN l.nodeMapByCreatedAt

\* Nodes(): every node after dummyHead, in list order.
Nodes(l) == SubSeq(l.nodes, 2, Len(l.nodes))

ListLen(l) == l.size

LastCreatedAt(l) == l.nodes[l.last].createdAt

\* A variant of the scan that stops at once: the node goes right after its anchor.
ScanNextNoScan(nodes, node, executedAt) == node

RECURSIVE ScanNext(_, _, _)
ScanNext(nodes, node, executedAt) ==
    IF node < Len(nodes) /\ After(PositionedAt(nodes[node + 1]), executedAt)
    THEN ScanNext(nodes, node + 1, executedAt)
    ELSE node

\* 0 when createdAt is not in the map (the code panics).
findNextBeforeExecutedAt(l, createdAt, executedAt) ==
    IF ~Known(l, createdAt) THEN 0
    ELSE ScanNext(l.nodes, l.nodeMapByCreatedAt[createdAt], executedAt)

\* A variant of insertAfter that puts the index node after the index node of
\* the anchor named, not of the predecessor the scan resolved.
insertAfterIndexAtAnchor(l, prevCreatedAt, value, executedAt) ==
    LET prevNode == findNextBeforeExecutedAt(l, prevCreatedAt, executedAt)
        newNode == prevNode + 1
    IN IF prevNode = 0
       THEN Panic(l, "fail to find the given createdAt")
       ELSE [nodes |-> newRGATreeListNodeAfter(l.nodes, prevNode, value),
             last |-> IF prevNode = l.last THEN newNode ELSE Up(l.last, prevNode),
             size |-> l.size + 1,
             nodeMapByIndex |->
                 TreeInsertAfter(TreeRenumberUp(l.nodeMapByIndex, prevNode),
                                 Up(l.nodeMapByCreatedAt[prevCreatedAt], prevNode),
                                 newNode, NodeLen(value)),
             nodeMapByCreatedAt |->
                 [k \in DOMAIN l.nodeMapByCreatedAt \cup {value.createdAt} |->
                     IF k = value.createdAt THEN newNode
                     ELSE Up(l.nodeMapByCreatedAt[k], prevNode)],
             err |-> "none"]

insertAfter(l, prevCreatedAt, value, executedAt) ==
    LET prevNode == findNextBeforeExecutedAt(l, prevCreatedAt, executedAt)
        newNode == prevNode + 1
    IN IF prevNode = 0
       THEN Panic(l, "fail to find the given createdAt")
       ELSE [nodes |-> newRGATreeListNodeAfter(l.nodes, prevNode, value),
             last |-> IF prevNode = l.last THEN newNode ELSE Up(l.last, prevNode),
             size |-> l.size + 1,
             nodeMapByIndex |->
                 TreeInsertAfter(TreeRenumberUp(l.nodeMapByIndex, prevNode),
                                 prevNode, newNode, NodeLen(value)),
             nodeMapByCreatedAt |->
                 [k \in DOMAIN l.nodeMapByCreatedAt \cup {value.createdAt} |->
                     IF k = value.createdAt THEN newNode
                     ELSE Up(l.nodeMapByCreatedAt[k], prevNode)],
             err |-> "none"]

\* A variant of release that unlinks dummyHead like any other node.
releaseAnyNode(l, node) ==
    [nodes |-> Unlink(l.nodes, node),
     last |-> IF l.last = node THEN node - 1 ELSE Down(l.last, node),
     size |-> IF ~isRemoved(l.nodes[node]) THEN l.size - 1 ELSE l.size,
     nodeMapByIndex |->
         TreeRenumberDown(TreeDelete(l.nodeMapByIndex, node), node),
     nodeMapByCreatedAt |->
         [k \in DOMAIN l.nodeMapByCreatedAt \ {l.nodes[node].createdAt} |->
             Down(l.nodeMapByCreatedAt[k], node)],
     err |-> "none"]

\* A variant of release that takes one off the counter for a tombstoned node too.
releaseAlwaysCounts(l, node) ==
    IF node = dummyHead
    THEN [l EXCEPT !.last = IF l.last = node THEN 0 ELSE @,
                   !.err = "nil pointer dereference"]
    ELSE [nodes |-> Unlink(l.nodes, node),
          last |-> IF l.last = node THEN node - 1 ELSE Down(l.last, node),
          size |-> l.size - 1,
          nodeMapByIndex |->
              TreeRenumberDown(TreeDelete(l.nodeMapByIndex, node), node),
          nodeMapByCreatedAt |->
              [k \in DOMAIN l.nodeMapByCreatedAt \ {l.nodes[node].createdAt} |->
                  Down(l.nodeMapByCreatedAt[k], node)],
          err |-> "none"]

\* release(dummyHead) dereferences dummyHead.prev, which is nil, after it has
\* moved a.last off a dummyHead that was last.
release(l, node) ==
    IF node = dummyHead
    THEN [l EXCEPT !.last = IF l.last = node THEN 0 ELSE @,
                   !.err = "nil pointer dereference"]
    ELSE [nodes |-> Unlink(l.nodes, node),
          last |-> IF l.last = node THEN node - 1 ELSE Down(l.last, node),
          size |-> IF ~isRemoved(l.nodes[node]) THEN l.size - 1 ELSE l.size,
          nodeMapByIndex |->
              TreeRenumberDown(TreeDelete(l.nodeMapByIndex, node), node),
          nodeMapByCreatedAt |->
              [k \in DOMAIN l.nodeMapByCreatedAt \ {l.nodes[node].createdAt} |->
                  Down(l.nodeMapByCreatedAt[k], node)],
          err |-> "none"]

\* A variant of Add that anchors the element at dummyHead instead of a.last.
AddAfterHead(l, elem) == insertAfter(l, InitialTicket, elem, elem.createdAt)

Add(l, elem) == insertAfter(l, LastCreatedAt(l), elem, elem.createdAt)

InsertAfter(l, prevCreatedAt, elem) ==
    insertAfter(l, prevCreatedAt, elem, elem.createdAt)

\* The walk `for { node = node.next; if !node.isRemoved() { break } }`:
\* 0 when it runs off the end of the list (node.isRemoved() on nil).
RECURSIVE NextLive(_, _)
NextLive(nodes, node) ==
    IF node + 1 > Len(nodes) THEN 0
    ELSE IF ~isRemoved(nodes[node + 1]) THEN node + 1
    ELSE NextLive(nodes, node + 1)

Get(l, idx) ==
    LET found == TreeFind(l.nodeMapByIndex, idx)
    IN IF ~found.ok THEN [node |-> 0, err |-> "out of bound"]
       ELSE IF (idx = 0 /\ found.node = dummyHead) \/ found.offset > 0
       THEN LET node == NextLive(l.nodes, found.node)
            IN [node |-> node,
                err |-> IF node = 0 THEN "nil pointer dereference" ELSE "none"]
       ELSE [node |-> found.node, err |-> "none"]

\* A variant of DeleteByCreatedAt that also unlinks the node it tombstones.
DeleteByCreatedAtAndRelease(l, createdAt, deletedAt) ==
    IF ~Known(l, createdAt)
    THEN Panic(l, "fail to find the given createdAt")
    ELSE LET node == l.nodeMapByCreatedAt[createdAt]
             alreadyRemoved == isRemoved(l.nodes[node])
             removal == ElemRemove(l.nodes[node], deletedAt)
             l1 == [l EXCEPT !.nodes[node] = removal.elem]
         IN IF removal.changed /\ ~alreadyRemoved
            THEN release([l1 EXCEPT !.size = @ - 1], node)
            ELSE l1

\* A variant of DeleteByCreatedAt without the alreadyRemoved test.
DeleteByCreatedAtUnguarded(l, createdAt, deletedAt) ==
    IF ~Known(l, createdAt)
    THEN Panic(l, "fail to find the given createdAt")
    ELSE LET node == l.nodeMapByCreatedAt[createdAt]
             removal == ElemRemove(l.nodes[node], deletedAt)
             l1 == [l EXCEPT !.nodes[node] = removal.elem]
         IN IF removal.changed
            THEN [l1 EXCEPT
                    !.nodeMapByIndex =
                        TreeSplay(@, node, NodeLen(removal.elem)),
                    !.size = @ - 1]
            ELSE l1

DeleteByCreatedAt(l, createdAt, deletedAt) ==
    IF ~Known(l, createdAt)
    THEN Panic(l, "fail to find the given createdAt")
    ELSE LET node == l.nodeMapByCreatedAt[createdAt]
             alreadyRemoved == isRemoved(l.nodes[node])
             removal == ElemRemove(l.nodes[node], deletedAt)
             l1 == [l EXCEPT !.nodes[node] = removal.elem]
         IN IF removal.changed /\ ~alreadyRemoved
            THEN [l1 EXCEPT
                    !.nodeMapByIndex =
                        TreeSplay(@, node, NodeLen(removal.elem)),
                    !.size = @ - 1]
            ELSE l1

Delete(l, idx, deletedAt) ==
    LET target == Get(l, idx)
    IN IF target.err # "none" THEN Panic(l, target.err)
       ELSE DeleteByCreatedAt(l, l.nodes[target.node].createdAt, deletedAt)

\* A variant of MoveAfter that inserts the element at its new place without
\* releasing its node first.
MoveAfterNoRelease(l, prevCreatedAt, createdAt, executedAt) ==
    IF ~Known(l, prevCreatedAt)
    THEN Panic(l, "fail to find the given prevCreatedAt")
    ELSE IF ~Known(l, createdAt)
    THEN Panic(l, "fail to find the given createdAt")
    ELSE LET node == l.nodeMapByCreatedAt[createdAt]
             elem == l.nodes[node]
         IN IF elem.movedAt = Nil \/ After(executedAt, elem.movedAt[1])
            THEN LET l2 == insertAfter(l, prevCreatedAt, elem, executedAt)
                 IN IF l2.err # "none" THEN l2
                    ELSE [l2 EXCEPT
                            !.nodes[l2.nodeMapByCreatedAt[createdAt]] =
                                SetMovedAt(@, executedAt)]
            ELSE l

\* A variant of MoveAfter that also applies a move whose ticket equals the
\* element's move ticket.
MoveAfterNotStrict(l, prevCreatedAt, createdAt, executedAt) ==
    IF ~Known(l, prevCreatedAt)
    THEN Panic(l, "fail to find the given prevCreatedAt")
    ELSE IF ~Known(l, createdAt)
    THEN Panic(l, "fail to find the given createdAt")
    ELSE LET node == l.nodeMapByCreatedAt[createdAt]
             elem == l.nodes[node]
         IN IF elem.movedAt = Nil \/ ~After(elem.movedAt[1], executedAt)
            THEN LET l1 == release(l, node)
                     l2 == IF l1.err # "none" THEN l1
                           ELSE insertAfter(l1, prevCreatedAt, elem, executedAt)
                 IN IF l2.err # "none" THEN l2
                    ELSE [l2 EXCEPT
                            !.nodes[l2.nodeMapByCreatedAt[createdAt]] =
                                SetMovedAt(@, executedAt)]
            ELSE l

MoveAfter(l, prevCreatedAt, createdAt, executedAt) ==
    IF ~Known(l, prevCreatedAt)
    THEN Panic(l, "fail to find the given prevCreatedAt")
    ELSE IF ~Known(l, createdAt)
    THEN Panic(l, "fail to find the given createdAt")
    ELSE LET node == l.nodeMapByCreatedAt[createdAt]
             elem == l.nodes[node]
         IN IF elem.movedAt = Nil \/ After(executedAt, elem.movedAt[1])
            THEN LET l1 == release(l, node)
                     l2 == IF l1.err # "none" THEN l1
                           ELSE insertAfter(l1, prevCreatedAt, elem, executedAt)
                 IN IF l2.err # "none" THEN l2
                    ELSE [l2 EXCEPT
                            !.nodes[l2.nodeMapByCreatedAt[createdAt]] =
                                SetMovedAt(@, executedAt)]
            ELSE l

\* A variant of the backward walk that stops at the first node it steps to.
PrevLiveNoSkip(nodes, node) == node - 1

RECURSIVE PrevLive(_, _)
PrevLive(nodes, node) ==
    IF node - 1 = 0 THEN 0
    ELSE IF node - 1 = dummyHead \/ ~isRemoved(nodes[node - 1]) THEN node - 1
    ELSE PrevLive(nodes, node - 1)

\* The creation ticket found, or Nil for a panic (an unknown ticket, or the
\* walk stepping to dummyHead.prev).
FindPrevCreatedAt(l, createdAt) ==
    IF ~Known(l, createdAt) THEN Nil
    ELSE LET node == PrevLive(l.nodes, l.nodeMapByCreatedAt[createdAt])
         IN IF node = 0 THEN Nil ELSE Some(l.nodes[node].createdAt)

\* The panic FindPrevCreatedAt ends with, "none" when it returns.
FindPrevCreatedAtPanic(l, createdAt) ==
    IF ~Known(l, createdAt) THEN "fail to find the given prevCreatedAt"
    ELSE IF PrevLive(l.nodes, l.nodeMapByCreatedAt[createdAt]) = 0
    THEN "nil pointer dereference"
    ELSE "none"

\* A variant of purge that returns when the ticket is not in the map.
purgeUnchecked(l, createdAt) ==
    IF ~Known(l, createdAt)
    THEN l
    ELSE release(l, l.nodeMapByCreatedAt[createdAt])

purge(l, createdAt) ==
    IF ~Known(l, createdAt)
    THEN Panic(l, "fail to find the given createdAt")
    ELSE release(l, l.nodeMapByCreatedAt[createdAt])

\* Marshal(): "[", then every node that is not removed, each followed by ","
\* unless it is a.last, then "]".
RECURSIVE MarshalFrom(_, _)
MarshalFrom(l, current) ==
    IF current > Len(l.nodes) THEN ""
    ELSE (IF ~isRemoved(l.nodes[current])
          THEN ElemMarshal(l.nodes[current]) \o (IF current # l.last THEN "," ELSE "")
          ELSE "")
         \o MarshalFrom(l, current + 1)

Marshal(l) == "[" \o MarshalFrom(l, dummyHead + 1) \o "]"

(***************************************************************************)
(* Observations of a list.                                                 *)
(***************************************************************************)
\* The places of the nodes after dummyHead that are not removed, in list order.
RECURSIVE LivePlacesFrom(_, _)
LivePlacesFrom(nodes, node) ==
    IF node > Len(nodes) THEN <<>>
    ELSE (IF ~isRemoved(nodes[node]) THEN <<node>> ELSE <<>>)
         \o LivePlacesFrom(nodes, node + 1)

LivePlaces(l) == LivePlacesFrom(l.nodes, dummyHead + 1)

LiveElements(l) == [i \in 1..Len(LivePlaces(l)) |-> l.nodes[LivePlaces(l)[i]]]

CreatedAts(nodes) == [i \in 1..Len(nodes) |-> nodes[i].createdAt]

RECURSIVE JoinMarshal(_)
JoinMarshal(elems) ==
    IF elems = <<>> THEN ""
    ELSE IF Len(elems) = 1 THEN ElemMarshal(elems[1])
    ELSE ElemMarshal(elems[1]) \o "," \o JoinMarshal(Tail(elems))

PlaceOf(l, createdAt) == l.nodeMapByCreatedAt[createdAt]

\* The elements of the nodes the index holds, in index order.
IndexElements(l) ==
    [i \in 1..Len(l.nodeMapByIndex.order) |-> l.nodes[l.nodeMapByIndex.order[i].node]]

\* What a caller of Get(idx) sees: the element of the node returned, or the panic.
GetElement(l, idx) ==
    LET got == Get(l, idx)
    IN IF got.err # "none" THEN [err |-> got.err]
       ELSE [err |-> "none", elem |-> l.nodes[got.node]]

Range(s) == {s[i] : i \in 1..Len(s)}

(***************************************************************************)
(* One list, a, and the operations applied to it one at a time.            *)
(***************************************************************************)
\* The last operation applied and whether it changed the list.
Op(name, before, after) == [name |-> name, applied |-> before # after]

NoOp == [name |-> "none", applied |-> FALSE]

Idle == /\ a.err = "none"
        /\ phase = "single"

\* The list holds at most MaxNodes nodes after dummyHead, and the counter is
\* not driven past MaxNodes + 1.
Capped(l) == l.size <= MaxNodes

Room(l) == Len(l.nodes) <= MaxNodes /\ Capped(l)

Frame == UNCHANGED <<b, phase, issued, doneA, doneB>>

DoAdd ==
    /\ Idle /\ Room(a)
    /\ \E c \in Tickets :
          /\ ~Known(a, c)
          /\ a' = Add(a, NewPrimitive(c))
          /\ lastOp' = Op("Add", a, a')
    /\ Frame

DoInsertAfter ==
    /\ Idle /\ Room(a)
    /\ \E p \in AnyTicket, c \in Tickets :
          /\ ~Known(a, c)
          /\ a' = InsertAfter(a, p, NewPrimitive(c))
          /\ lastOp' = Op("InsertAfter", a, a')
    /\ Frame

DoGet ==
    /\ Idle
    /\ \E idx \in 0..(a.size - 1) :
          /\ a' = (IF Get(a, idx).err = "none" THEN a ELSE Panic(a, Get(a, idx).err))
          /\ lastOp' = Op("Get", a, a')
    /\ Frame

\* The tickets of elements: dummyHead's is no element's.
DoDeleteByCreatedAt ==
    /\ Idle
    /\ \E c \in Tickets, d \in DeleteTickets :
          /\ a' = DeleteByCreatedAt(a, c, d)
          /\ lastOp' = Op("DeleteByCreatedAt", a, a')
    /\ Frame

DoDelete ==
    /\ Idle
    /\ \E idx \in 0..(a.size - 1), d \in DeleteTickets :
          /\ a' = Delete(a, idx, d)
          /\ lastOp' = Op("Delete", a, a')
    /\ Frame

DoMoveAfter ==
    /\ Idle /\ Capped(a)
    /\ \E p \in AnyTicket, c \in AnyTicket, t \in Tickets :
          /\ a' = MoveAfter(a, p, c, t)
          /\ lastOp' = Op("MoveAfter", a, a')
    /\ Frame

DoPurge ==
    /\ Idle
    /\ \E c \in AnyTicket :
          /\ a' = purge(a, c)
          /\ lastOp' = Op("purge", a, a')
    /\ Frame

InitIn(ph) ==
    /\ a = NewRGATreeList
    /\ b = NewRGATreeList
    /\ lastOp = NoOp
    /\ phase = ph
    /\ issued = {}
    /\ doneA = <<>>
    /\ doneB = <<>>

Init == InitIn("single")

Next ==
    \/ DoAdd
    \/ DoInsertAfter
    \/ DoGet
    \/ DoDeleteByCreatedAt
    \/ DoDelete
    \/ DoMoveAfter
    \/ DoPurge

Spec == Init /\ [][Next]_vars

(***************************************************************************)
(* A new list that only receives Add calls; doneA is the elements in call  *)
(* order.  The creation tickets are arbitrary, repeated ones included.     *)
(***************************************************************************)
InitAdd == InitIn("adds")

AddCall ==
    /\ phase = "adds" /\ a.err = "none"
    /\ Len(doneA) < MaxAdds
    /\ \E c \in Tickets :
          /\ a' = Add(a, NewPrimitive(c))
          /\ doneA' = Append(doneA, NewPrimitive(c))
          /\ lastOp' = Op("Add", a, a')
    /\ UNCHANGED <<b, phase, issued, doneB>>

NextAdd == AddCall

SpecAdd == InitAdd /\ [][NextAdd]_vars

(***************************************************************************)
(* Duplicate delivery of insertions: issued is the insertions applied so   *)
(* far; Redeliver applies one of them a second time, with an element       *)
(* decoded anew from the same operation.                                   *)
(***************************************************************************)
InitDup == InitIn("dup")

RoomForDup(l) == Len(l.nodes) <= MaxDupNodes

Insertion(name, prev, createdAt) ==
    [name |-> name, prev |-> prev, createdAt |-> createdAt, at |-> createdAt]

ApplyInsertion(l, op) ==
    IF op.name = "Add" THEN Add(l, NewPrimitive(op.createdAt))
    ELSE InsertAfter(l, op.prev, NewPrimitive(op.createdAt))

DupAdd ==
    /\ phase = "dup" /\ a.err = "none" /\ RoomForDup(a)
    /\ \E c \in Tickets :
          /\ ~Known(a, c)
          /\ a' = Add(a, NewPrimitive(c))
          /\ issued' = issued \cup {Insertion("Add", InitialTicket, c)}
          /\ lastOp' = Op("Add", a, a')
    /\ UNCHANGED <<b, phase, doneA, doneB>>

DupInsertAfter ==
    /\ phase = "dup" /\ a.err = "none" /\ RoomForDup(a)
    /\ \E p \in AnyTicket, c \in Tickets :
          /\ Known(a, p) /\ ~Known(a, c)
          /\ a' = InsertAfter(a, p, NewPrimitive(c))
          /\ issued' = issued \cup {Insertion("InsertAfter", p, c)}
          /\ lastOp' = Op("InsertAfter", a, a')
    /\ UNCHANGED <<b, phase, doneA, doneB>>

Redeliver ==
    /\ phase = "dup" /\ a.err = "none" /\ RoomForDup(a)
    /\ \E op \in issued :
          /\ a' = ApplyInsertion(a, op)
          /\ lastOp' = Op("Redeliver", a, a')
    /\ UNCHANGED <<b, phase, issued, doneA, doneB>>

NextDup ==
    \/ DupAdd
    \/ DupInsertAfter
    \/ Redeliver

SpecDup == InitDup /\ [][NextDup]_vars

(***************************************************************************)
(* Two replicas.  A common state is built on a; then a set of concurrent   *)
(* operations is issued against it, each with a ticket of its own and      *)
(* naming only tickets of the common state; replica a applies them in one  *)
(* order and replica b, starting from the same state, in another.          *)
(***************************************************************************)
InitConv == InitIn("build")

Building == phase = "build" /\ a.err = "none"

BuildFrame == UNCHANGED <<b, lastOp, phase, issued, doneA, doneB>>

RoomToBuild(l) == Len(l.nodes) <= MaxBuild

BuildAdd ==
    /\ Building /\ RoomToBuild(a)
    /\ \E c \in Tickets :
          /\ ~Known(a, c)
          /\ a' = Add(a, NewPrimitive(c))
    /\ BuildFrame

BuildInsertAfter ==
    /\ Building /\ RoomToBuild(a)
    /\ \E p \in AnyTicket, c \in Tickets :
          /\ Known(a, p) /\ ~Known(a, c)
          /\ a' = InsertAfter(a, p, NewPrimitive(c))
    /\ BuildFrame

BuildDelete ==
    /\ Building
    /\ \E c \in Tickets, d \in DeleteTickets :
          /\ Known(a, c)
          /\ a' = DeleteByCreatedAt(a, c, d)
    /\ BuildFrame

\* The tickets a list holds as creation or move tickets.
UsedTickets(l) ==
    {l.nodes[i].createdAt : i \in 1..Len(l.nodes)}
      \cup {l.nodes[i].movedAt[1] : i \in {j \in 1..Len(l.nodes) : l.nodes[j].movedAt # Nil}}

OpTickets == 1..(MaxTicket + MaxConcurrent)

ConcurrentOps(l) ==
    LET known == DOMAIN l.nodeMapByCreatedAt
        fresh == OpTickets \ UsedTickets(l)
    IN {[name |-> "InsertAfter", prev |-> p, createdAt |-> t, at |-> t] :
            p \in known, t \in fresh}
       \cup {[name |-> "DeleteByCreatedAt", prev |-> InitialTicket, createdAt |-> c, at |-> d] :
            c \in known \ {InitialTicket}, d \in DeleteTickets}
       \cup {o \in {[name |-> "MoveAfter", prev |-> p, createdAt |-> c, at |-> t] :
                      p \in known, c \in known \ {InitialTicket}, t \in fresh} :
               o.prev # o.createdAt}

\* Two operations carry distinct tickets (deletion tickets are a domain of
\* their own).
DistinctTickets(o1, o2) ==
    IF (o1.name = "DeleteByCreatedAt") # (o2.name = "DeleteByCreatedAt") THEN TRUE
    ELSE o1.at # o2.at

Apply(l, op) ==
    CASE op.name = "InsertAfter" -> InsertAfter(l, op.prev, NewPrimitive(op.createdAt))
      [] op.name = "DeleteByCreatedAt" -> DeleteByCreatedAt(l, op.createdAt, op.at)
      [] op.name = "MoveAfter" -> MoveAfter(l, op.prev, op.createdAt, op.at)

Issue ==
    /\ phase \in {"build", "issue"} /\ a.err = "none"
    /\ Cardinality(issued) < MaxConcurrent
    /\ \E op \in ConcurrentOps(a) :
          /\ \A o \in issued : DistinctTickets(o, op)
          /\ issued' = issued \cup {op}
    /\ phase' = "issue"
    /\ b' = a
    /\ UNCHANGED <<a, lastOp, doneA, doneB>>

DeliverA ==
    /\ phase \in {"issue", "deliver"} /\ a.err = "none"
    /\ Cardinality(issued) >= 2
    /\ \E op \in issued \ Range(doneA) :
          /\ a' = Apply(a, op)
          /\ doneA' = Append(doneA, op)
    /\ phase' = "deliver"
    /\ UNCHANGED <<b, lastOp, issued, doneB>>

DeliverB ==
    /\ phase = "deliver" /\ b.err = "none"
    /\ Len(doneA) = Cardinality(issued)
    /\ \E op \in issued \ Range(doneB) :
          /\ b' = Apply(b, op)
          /\ doneB' = Append(doneB, op)
    /\ UNCHANGED <<a, lastOp, phase, issued, doneA>>

Delivered ==
    /\ phase = "deliver"
    /\ Len(doneA) = Cardinality(issued)
    /\ Len(doneB) = Cardinality(issued)

NextConv ==
    \/ BuildAdd
    \/ BuildInsertAfter
    \/ BuildDelete
    \/ Issue
    \/ DeliverA
    \/ DeliverB

SpecConv == InitConv /\ [][NextConv]_vars

(***************************************************************************)
(* Convergence of two replicas.                                            *)
(***************************************************************************)
\* C1: when two replicas have applied the same set of concurrent operations
\* (InsertAfter, DeleteByCreatedAt, MoveAfter, each with its own ticket, each
\* naming only tickets of the common starting state), in whatever orders, they
\* hold the same sequence of live elements and the same Len().
C1_ReplicasConverge ==
    Delivered =>
        /\ LiveElements(a) = LiveElements(b)
        /\ ListLen(a) = ListLen(b)

TwoInsertsAtOneAnchor ==
    /\ Delivered
    /\ Cardinality(issued) = 2
    /\ \A o \in issued : o.name = "InsertAfter"
    /\ \A o1, o2 \in issued : o1.prev = o2.prev

\* C2: two insertions of new elements x, y with distinct creation tickets after
\* the same anchor A give the same Nodes() whichever is applied first, and in
\* both orders the element with the later ticket is the one closer to A.
C2_InsertsAtOneAnchorCommute ==
    TwoInsertsAtOneAnchor =>
        /\ Nodes(a) = Nodes(b)
        /\ \A l \in {a, b} : \A x, y \in issued :
              After(y.createdAt, x.createdAt) =>
                  /\ PlaceOf(l, x.prev) < PlaceOf(l, y.createdAt)
                  /\ PlaceOf(l, y.createdAt) < PlaceOf(l, x.createdAt)

\* The two replicas applied the two insertions in opposite orders, and the
\* anchor already had a successor that one insertion scans past.
C2_Witness ==
    /\ TwoInsertsAtOneAnchor
    /\ doneA[1] = doneB[2] /\ doneA[2] = doneB[1]
    /\ doneA[1] # doneA[2]
    /\ Len(a.nodes) = 5
    /\ \E o \in issued : PlaceOf(a, o.createdAt) > PlaceOf(a, o.prev) + 2

(***************************************************************************)
(* Duplicate delivery of an insertion.                                     *)
(***************************************************************************)
\* C3: applying an insertion (InsertAfter or Add) that has already been
\* applied a second time leaves Nodes(), Len() and the identity map as they
\* were.
C3_RedeliveredInsertIsNoOp ==
    [][lastOp'.name = "Redeliver" =>
          /\ Nodes(a') = Nodes(a)
          /\ ListLen(a') = ListLen(a)
          /\ a'.nodeMapByCreatedAt = a.nodeMapByCreatedAt]_vars

(***************************************************************************)
(* Moves.                                                                  *)
(***************************************************************************)
MoveAccepted(l, createdAt, executedAt) ==
    LET elem == l.nodes[PlaceOf(l, createdAt)]
    IN elem.movedAt = Nil \/ After(executedAt, elem.movedAt[1])

\* C4: MoveAfter(p, id, t) is applied only if the element was never moved or t
\* is strictly after its move ticket; a rejected move changes nothing, an
\* applied one leaves t as the move ticket, and after it the same move again,
\* or that move with a ticket not after t, changes nothing: order, move ticket
\* and Len() stay as the move with t left them.
C4_MoveLastWriterWins ==
    a.err = "none" =>
        \A p \in DOMAIN a.nodeMapByCreatedAt, c \in DOMAIN a.nodeMapByCreatedAt,
           t \in Tickets :
            LET moved == MoveAfter(a, p, c, t)
            IN IF MoveAccepted(a, c, t)
               THEN moved.err = "none" =>
                      /\ moved.nodes[PlaceOf(moved, c)].movedAt = Some(t)
                      /\ \A t2 \in Tickets :
                            ~After(t2, t) => MoveAfter(moved, p, c, t2) = moved
               ELSE moved = a

\* The last operation was a MoveAfter that was rejected: the list is as before
\* and holds a moved element.
C4_Witness ==
    /\ lastOp.name = "MoveAfter" /\ ~lastOp.applied
    /\ a.err = "none"
    /\ \E i \in 2..Len(a.nodes) : a.nodes[i].movedAt # Nil

\* C7: MoveAfter leaves Len() as it was, for a live or a tombstoned node and any
\* anchor, whether the move is applied or rejected.
C7_MoveKeepsLen ==
    [][(lastOp'.name = "MoveAfter" /\ a'.err = "none") => ListLen(a') = ListLen(a)]_vars

(***************************************************************************)
(* Deletion.                                                               *)
(***************************************************************************)
\* C5: the first DeleteByCreatedAt on a node decrements Len() by one and
\* rotates its index node to the root; a later one on the same creation ticket,
\* with any deletion ticket, changes neither Len() nor the index; in both cases
\* the list order is the same and only that node's removal ticket may change.
C5_DeleteIdempotent ==
    a.err = "none" =>
        \A c \in DOMAIN a.nodeMapByCreatedAt, d \in DeleteTickets :
            LET node == PlaceOf(a, c)
                first == DeleteByCreatedAt(a, c, d)
            IN /\ first.err = "none"
               /\ CreatedAts(first.nodes) = CreatedAts(a.nodes)
               /\ \A i \in 1..Len(a.nodes) : i # node => first.nodes[i] = a.nodes[i]
               /\ isRemoved(first.nodes[node])
               /\ IF ~isRemoved(a.nodes[node])
                  THEN /\ ListLen(first) = ListLen(a) - 1
                       /\ first.nodeMapByIndex.root = node
                       /\ first.nodes[node].removedAt = Some(d)
                  ELSE /\ ListLen(first) = ListLen(a)
                       /\ first.nodeMapByIndex = a.nodeMapByIndex
               /\ \A d2 \in DeleteTickets :
                     LET later == DeleteByCreatedAt(first, c, d2)
                     IN /\ ListLen(later) = ListLen(first)
                        /\ later.nodeMapByIndex = first.nodeMapByIndex
                        /\ CreatedAts(later.nodes) = CreatedAts(first.nodes)

\* The last operation was a DeleteByCreatedAt that changed nothing: its target
\* was an element tombstoned before, with a removal ticket the new one is not
\* after.
C5_Witness ==
    /\ lastOp.name = "DeleteByCreatedAt" /\ ~lastOp.applied
    /\ a.err = "none"
    /\ \E i \in 2..Len(a.nodes) : isRemoved(a.nodes[i])

(***************************************************************************)
(* The live counter, Get and Marshal.                                      *)
(***************************************************************************)
\* C6: after every public operation Len() is the number of linked nodes,
\* dummyHead excluded, whose element has no removal ticket.
C6_LenCountsLiveNodes ==
    a.err = "none" => ListLen(a) = Len(LivePlaces(a))

\* C8: for every index with 0 <= index < Len(), Get(index) returns a live node
\* other than dummyHead, and it is the (index+1)-th live node in list order.
C8_GetReturnsLiveNodeAtIndex ==
    a.err = "none" =>
        \A idx \in 0..(ListLen(a) - 1) :
            /\ Get(a, idx).err = "none"
            /\ idx + 1 <= Len(LivePlaces(a))
            /\ Get(a, idx).node = LivePlaces(a)[idx + 1]

\* C9: Marshal is "[", the live elements in list order with a single comma
\* between consecutive ones, "]": no leading, trailing or doubled comma.
C9_MarshalJoinsLiveElements ==
    a.err = "none" => Marshal(a) = "[" \o JoinMarshal(LiveElements(a)) \o "]"

(***************************************************************************)
(* Add.                                                                    *)
(***************************************************************************)
\* C10: after n Add calls on a new list with elements e0..en-1 of any creation
\* tickets, the element added last is the last node, Nodes() is e0..en-1 in
\* call order, Get(i) returns ei, and Len() is n.
C10_AddAppends ==
    phase = "adds" =>
        /\ a.err = "none"
        /\ Nodes(a) = doneA
        /\ a.last = Len(a.nodes)
        /\ ListLen(a) = Len(doneA)
        /\ \A i \in 0..(Len(doneA) - 1) :
              /\ Get(a, i).err = "none"
              /\ Get(a, i).node = i + 2
              /\ a.nodes[Get(a, i).node] = doneA[i + 1]

\* MaxAdds elements were added, some with a ticket below that of an earlier one
\* and some with a repeated ticket.
C10_Witness ==
    /\ phase = "adds"
    /\ Len(doneA) >= 3
    /\ After(doneA[1].createdAt, doneA[2].createdAt)
    /\ doneA[3].createdAt = doneA[1].createdAt

(***************************************************************************)
(* Garbage collection.  Elements are inserted, tombstoned and moved; purge  *)
(* is called for tombstoned elements, as the collector does, and issued is *)
(* the creation tickets purged so far.  A creation ticket is never issued  *)
(* twice; operations may name any ticket, purged ones included.            *)
(***************************************************************************)
InitGC == InitIn("gc")

Collecting == phase = "gc" /\ a.err = "none"

RoomForGC(l) == Len(l.nodes) <= MaxGC /\ Capped(l)

GcFrame == UNCHANGED <<b, phase, issued, doneA, doneB>>

GcAdd ==
    /\ Collecting /\ RoomForGC(a)
    /\ \E c \in Tickets :
          /\ ~Known(a, c) /\ c \notin issued
          /\ a' = Add(a, NewPrimitive(c))
          /\ lastOp' = Op("Add", a, a')
    /\ GcFrame

GcInsertAfter ==
    /\ Collecting /\ RoomForGC(a)
    /\ \E p \in AnyTicket, c \in Tickets :
          /\ ~Known(a, c) /\ c \notin issued
          /\ a' = InsertAfter(a, p, NewPrimitive(c))
          /\ lastOp' = Op("InsertAfter", a, a')
    /\ GcFrame

GcDeleteByCreatedAt ==
    /\ Collecting
    /\ \E c \in Tickets, d \in DeleteTickets :
          /\ a' = DeleteByCreatedAt(a, c, d)
          /\ lastOp' = Op("DeleteByCreatedAt", a, a')
    /\ GcFrame

GcMoveAfter ==
    /\ Collecting /\ Capped(a)
    /\ \E p \in AnyTicket, c \in Tickets, t \in 1..MaxGCMove :
          /\ a' = MoveAfter(a, p, c, t)
          /\ lastOp' = Op("MoveAfter", a, a')
    /\ GcFrame

GcFindPrevCreatedAt ==
    /\ Collecting
    /\ \E c \in Tickets :
          /\ a' = (IF FindPrevCreatedAtPanic(a, c) = "none" THEN a
                   ELSE Panic(a, FindPrevCreatedAtPanic(a, c)))
          /\ lastOp' = Op("FindPrevCreatedAt", a, a')
    /\ GcFrame

GcPurge ==
    /\ Collecting
    /\ \E c \in Tickets :
          /\ Known(a, c) => isRemoved(a.nodes[PlaceOf(a, c)])
          /\ a' = purge(a, c)
          /\ lastOp' = Op("purge", a, a')
          /\ issued' = IF Known(a, c) THEN issued \cup {c} ELSE issued
    /\ UNCHANGED <<b, phase, doneA, doneB>>

NextGC ==
    \/ GcAdd
    \/ GcInsertAfter
    \/ GcDeleteByCreatedAt
    \/ GcMoveAfter
    \/ GcFindPrevCreatedAt
    \/ GcPurge

SpecGC == InitGC /\ [][NextGC]_vars

(***************************************************************************)
(* purge.                                                                  *)
(***************************************************************************)
\* C11: purge of a tombstoned element's node removes it from the list, the
\* index and the identity map, leaves Len() as it was, and leaves the order of
\* the remaining nodes and the result of Get(i), for every i below Len(), as
\* they were.
C11_PurgeOfTombstoneKeepsLenAndOrder ==
    a.err = "none" =>
        \A c \in DOMAIN a.nodeMapByCreatedAt \ {InitialTicket} :
            isRemoved(a.nodes[PlaceOf(a, c)]) =>
                LET node == PlaceOf(a, c)
                    purged == purge(a, c)
                IN /\ purged.err = "none"
                   /\ purged.nodes = Unlink(a.nodes, node)
                   /\ \A i \in 1..Len(purged.nodes) : purged.nodes[i].createdAt # c
                   /\ ~Known(purged, c)
                   /\ IndexElements(purged)
                        = Unlink(IndexElements(a), TreePlace(a.nodeMapByIndex, node))
                   /\ ListLen(purged) = ListLen(a)
                   /\ \A i \in 0..(ListLen(a) - 1) :
                         GetElement(purged, i) = GetElement(a, i)

\* The last operation purged a tombstoned element from a list that still holds
\* two elements, one of them live.
C11_Witness ==
    /\ phase = "gc"
    /\ lastOp.name = "purge" /\ lastOp.applied
    /\ issued # {}
    /\ a.err = "none"
    /\ Len(a.nodes) = 3
    /\ ListLen(a) >= 1

(***************************************************************************)
(* Failures.                                                               *)
(***************************************************************************)
\* C12: every call of a mutating operation (Add, InsertAfter, DeleteByCreatedAt,
\* Delete, MoveAfter, purge), for any ticket arguments, MoveAfter with
\* prevCreatedAt equal to createdAt included, either applies completely or
\* leaves the list, the index, the identity map and Len() as they were: a call
\* that fails has changed nothing.
C12_NoPartialFailure ==
    [][a'.err # "none" => a' = Panic(a, a'.err)]_vars

UnknownIdentifier ==
    {"fail to find the given createdAt", "fail to find the given prevCreatedAt"}

\* C13: DeleteByCreatedAt, InsertAfter (its anchor), MoveAfter (either ticket),
\* FindPrevCreatedAt and purge, called with a ticket that was never inserted or
\* whose node has been purged, fail with the unknown-identifier panic, the list
\* unchanged, instead of returning; no purged creation ticket is in the
\* identity map afterwards.
C13_UnknownTicketFails ==
    a.err = "none" =>
        /\ \A c \in issued : ~Known(a, c)
        /\ \A u \in AnyTicket \ DOMAIN a.nodeMapByCreatedAt :
              /\ \A d \in DeleteTickets :
                    DeleteByCreatedAt(a, u, d) = Panic(a, "fail to find the given createdAt")
              /\ \A c \in Tickets :
                    InsertAfter(a, u, NewPrimitive(c)) = Panic(a, "fail to find the given createdAt")
              /\ \A k \in AnyTicket, t \in Tickets :
                    /\ MoveAfter(a, u, k, t).err \in UnknownIdentifier
                    /\ MoveAfter(a, k, u, t).err \in UnknownIdentifier
                    /\ MoveAfter(a, u, k, t) = Panic(a, MoveAfter(a, u, k, t).err)
                    /\ MoveAfter(a, k, u, t) = Panic(a, MoveAfter(a, k, u, t).err)
              /\ FindPrevCreatedAtPanic(a, u) \in UnknownIdentifier
              /\ FindPrevCreatedAt(a, u) = Nil
              /\ purge(a, u) = Panic(a, "fail to find the given createdAt")

\* The last operation, a DeleteByCreatedAt, failed with the unknown-identifier
\* panic, and every ticket the map does not hold was purged before.
C13_Witness ==
    /\ phase = "gc"
    /\ lastOp.name = "DeleteByCreatedAt"
    /\ a.err \in UnknownIdentifier
    /\ issued # {}
    /\ Tickets \ DOMAIN a.nodeMapByCreatedAt \subseteq issued

(***************************************************************************)
(* The three structures of one list.                                       *)
(***************************************************************************)
\* C14: after every public operation the identity map has exactly one entry
\* per node linked in the list, dummyHead included, and no other: each linked
\* node is the value stored under its own creation ticket, and no two linked
\* nodes share a creation ticket.
C14_IdentityMapMatchesList ==
    a.err = "none" =>
        /\ \A i \in 1..Len(a.nodes) :
              /\ Known(a, a.nodes[i].createdAt)
              /\ PlaceOf(a, a.nodes[i].createdAt) = i
        /\ \A k \in DOMAIN a.nodeMapByCreatedAt :
              /\ PlaceOf(a, k) \in 1..Len(a.nodes)
              /\ a.nodes[PlaceOf(a, k)].createdAt = k
        /\ \A i, j \in 1..Len(a.nodes) :
              a.nodes[i].createdAt = a.nodes[j].createdAt => i = j

\* C15: after every public operation the index holds exactly the nodes linked
\* in the list, in the same order: enumerating the index in order gives the
\* node sequence of the walk from dummyHead along next.
C15_IndexOrderIsListOrder ==
    /\ Len(a.nodeMapByIndex.order) = Len(a.nodes)
    /\ \A i \in 1..Len(a.nodes) : a.nodeMapByIndex.order[i].node = i
    /\ IndexElements(a) = a.nodes

\* The last operation was a MoveAfter that was applied, a release followed by
\* an insertion, on a list of two elements.
C15_Witness ==
    /\ phase = "single"
    /\ lastOp.name = "MoveAfter" /\ lastOp.applied
    /\ a.err = "none"
    /\ Len(a.nodes) = 3
    /\ \E i \in 2..3 : a.nodes[i].movedAt # Nil

\* C16: after every public operation the tail reference is the last node in
\* forward list order, it is dummyHead exactly when no other node is linked,
\* and LastCreatedAt() returns its creation ticket, tombstoned or not.
C16_LastIsTail ==
    /\ a.last = Len(a.nodes)
    /\ (a.last = dummyHead) <=> (Len(a.nodes) = 1)
    /\ LastCreatedAt(a) = a.nodes[Len(a.nodes)].createdAt

(***************************************************************************)
(* dummyHead.  The operations of Spec, and those that name the initial     *)
(* ticket where Spec leaves them out.                                      *)
(***************************************************************************)
DoDeleteDummyHead ==
    /\ Idle
    /\ \E d \in DeleteTickets :
          /\ a' = DeleteByCreatedAt(a, InitialTicket, d)
          /\ lastOp' = Op("DeleteByCreatedAt", a, a')
    /\ Frame

DoFindPrevCreatedAt ==
    /\ Idle
    /\ \E c \in AnyTicket :
          /\ a' = (IF FindPrevCreatedAtPanic(a, c) = "none" THEN a
                   ELSE Panic(a, FindPrevCreatedAtPanic(a, c)))
          /\ lastOp' = Op("FindPrevCreatedAt", a, a')
    /\ Frame

NextSentinel ==
    \/ DoAdd
    \/ DoInsertAfter
    \/ DoGet
    \/ DoDeleteByCreatedAt
    \/ DoDeleteDummyHead
    \/ DoDelete
    \/ DoMoveAfter
    \/ DoFindPrevCreatedAt
    \/ DoPurge

SpecSentinel == Init /\ [][NextSentinel]_vars

\* C17: in every state reachable by the operations, called with any ticket the
\* identity map holds, the initial ticket included, dummyHead is the first list
\* node, is the map's value for the initial ticket, is not in Nodes() and is
\* not counted by Len(): it weighs nothing in the index, Get never returns it,
\* and an operation that names it leaves Len() as it was.
C17_DummyHeadStays ==
    /\ Len(a.nodes) >= 1
    /\ a.nodes[dummyHead].createdAt = InitialTicket
    /\ isRemoved(a.nodes[dummyHead])
    /\ Known(a, InitialTicket)
    /\ PlaceOf(a, InitialTicket) = dummyHead
    /\ \A i \in 1..Len(Nodes(a)) : Nodes(a)[i].createdAt # InitialTicket
    /\ a.nodeMapByIndex.order[1] = [node |-> dummyHead, weight |-> 0]
    /\ a.err = "none" =>
          /\ \A idx \in 0..(ListLen(a) - 1) : Get(a, idx).node # dummyHead
          /\ \A d \in DeleteTickets :
                ListLen(DeleteByCreatedAt(a, InitialTicket, d)) = ListLen(a)
          /\ \A p \in DOMAIN a.nodeMapByCreatedAt, t \in Tickets :
                ListLen(MoveAfter(a, p, InitialTicket, t)) = ListLen(a)
          /\ ListLen(purge(a, InitialTicket)) = ListLen(a)

\* DeleteByCreatedAt was called with the initial ticket, which replaced
\* dummyHead's removal ticket, on a list that holds a live element.
C17_Witness ==
    /\ phase = "single"
    /\ a.err = "none"
    /\ a.nodes[dummyHead].removedAt # Some(InitialTicket)
    /\ Len(a.nodes) >= 2
    /\ ListLen(a) >= 1

(***************************************************************************)
(* Tombstones.                                                             *)
(***************************************************************************)
\* The nodes of the index in index order.
IndexNodes(l) ==
    [i \in 1..Len(l.nodeMapByIndex.order) |-> l.nodeMapByIndex.order[i].node]

\* Between two lists nothing differs but removal tickets and Len().
OnlyTombstoned(before, after) ==
    /\ Len(after.nodes) = Len(before.nodes)
    /\ \A i \in 1..Len(before.nodes) :
          after.nodes[i] = [before.nodes[i] EXCEPT !.removedAt = after.nodes[i].removedAt]
    /\ after.nodeMapByCreatedAt = before.nodeMapByCreatedAt
    /\ IndexNodes(after) = IndexNodes(before)
    /\ after.last = before.last
    /\ ListLen(after) \in {ListLen(before), ListLen(before) - 1}

\* C18: Delete and DeleteByCreatedAt change only the element's removal ticket
\* and Len(): the node stays in Nodes() at the same position, in the identity
\* map and in the index, the tail reference is unchanged, and the node can
\* still be named as the anchor of an InsertAfter or a MoveAfter.
C18_TombstoneKeepsNode ==
    a.err = "none" =>
        /\ \A c \in DOMAIN a.nodeMapByCreatedAt \ {InitialTicket}, d \in DeleteTickets :
              LET node == PlaceOf(a, c)
                  deleted == DeleteByCreatedAt(a, c, d)
              IN /\ deleted.err = "none"
                 /\ OnlyTombstoned(a, deleted)
                 /\ \A i \in 1..Len(a.nodes) : i # node => deleted.nodes[i] = a.nodes[i]
                 /\ isRemoved(deleted.nodes[node])
                 /\ \A x \in Tickets \ DOMAIN a.nodeMapByCreatedAt :
                       LET inserted == InsertAfter(deleted, c, NewPrimitive(x))
                       IN /\ inserted.err = "none"
                          /\ PlaceOf(inserted, c) < PlaceOf(inserted, x)
                 /\ \A k \in DOMAIN a.nodeMapByCreatedAt \ {InitialTicket, c}, t \in Tickets :
                       MoveAccepted(deleted, k, t) =>
                           LET moved == MoveAfter(deleted, c, k, t)
                           IN /\ moved.err = "none"
                              /\ PlaceOf(moved, c) < PlaceOf(moved, k)
        /\ \A idx \in 0..(ListLen(a) - 1), d \in DeleteTickets :
              LET deleted == Delete(a, idx, d)
              IN deleted.err = "none" =>
                    /\ OnlyTombstoned(a, deleted)
                    /\ ListLen(deleted) = ListLen(a) - 1

\* The last operation, a Delete, tombstoned the first of two elements: the
\* tombstone is still linked before the live element, which is the tail.
C18_Witness ==
    /\ phase = "single"
    /\ lastOp.name = "Delete" /\ lastOp.applied
    /\ a.err = "none"
    /\ Len(a.nodes) = 3
    /\ isRemoved(a.nodes[2]) /\ ~isRemoved(a.nodes[3])
    /\ a.last = 3

(***************************************************************************)
(* FindPrevCreatedAt.                                                      *)
(***************************************************************************)
\* The creation ticket of the nearest node before place node that is not
\* removed, dummyHead's when there is none.
NearestLiveBefore(l, node) ==
    LET live == {i \in (dummyHead + 1)..(node - 1) : ~isRemoved(l.nodes[i])}
    IN IF live = {} THEN InitialTicket
       ELSE l.nodes[CHOOSE i \in live : \A j \in live : j <= i].createdAt

\* C19: for every node of the list other than dummyHead, FindPrevCreatedAt of
\* its ticket returns the creation ticket of the nearest live node before it in
\* list order, or dummyHead's ticket when every node before it is tombstoned or
\* there is none.
C19_FindPrevCreatedAtIsNearestLive ==
    a.err = "none" =>
        \A c \in DOMAIN a.nodeMapByCreatedAt \ {InitialTicket} :
            /\ FindPrevCreatedAtPanic(a, c) = "none"
            /\ FindPrevCreatedAt(a, c) = Some(NearestLiveBefore(a, PlaceOf(a, c)))

\* FindPrevCreatedAt was just called and returned, on a list of a live
\* element, a tombstone and a third element, in this order.
C19_Witness ==
    /\ phase = "gc"
    /\ lastOp.name = "FindPrevCreatedAt" /\ ~lastOp.applied
    /\ a.err = "none"
    /\ Len(a.nodes) = 4
    /\ ~isRemoved(a.nodes[2]) /\ isRemoved(a.nodes[3])

(***************************************************************************)
(* An accepted move.                                                       *)
(***************************************************************************)
\* C20: an accepted MoveAfter(prevCreatedAt, createdAt, executedAt) with
\* prevCreatedAt other than createdAt keeps the elements of the list (the moved
\* one is in Nodes() once, none is lost or doubled), keeps the order of all
\* other nodes, keeps the element's creation and removal tickets, and puts the
\* element after the anchor where InsertAfter would put a new element whose
\* ticket is executedAt.
C20_MoveKeepsElements ==
    a.err = "none" =>
        \A p \in DOMAIN a.nodeMapByCreatedAt,
           c \in DOMAIN a.nodeMapByCreatedAt \ {InitialTicket}, t \in Tickets :
            (p # c /\ MoveAccepted(a, c, t)) =>
                LET node == PlaceOf(a, c)
                    moved == MoveAfter(a, p, c, t)
                    inserted == InsertAfter(release(a, node), p, NewPrimitive(t))
                IN /\ moved.err = "none"
                   /\ Len(moved.nodes) = Len(a.nodes)
                   /\ Unlink(moved.nodes, PlaceOf(moved, c)) = Unlink(a.nodes, node)
                   /\ Cardinality({i \in 1..Len(moved.nodes) :
                                     moved.nodes[i].createdAt = c}) = 1
                   /\ moved.nodes[PlaceOf(moved, c)]
                        = [a.nodes[node] EXCEPT !.movedAt = Some(t)]
                   /\ PlaceOf(moved, p) < PlaceOf(moved, c)
                   /\ PlaceOf(moved, c) = PlaceOf(inserted, t)

\* The last operation was a MoveAfter that was applied, in a list of three
\* elements: a moved element stands behind a node positioned after its move
\* ticket.
C20_Witness ==
    /\ phase = "gc"
    /\ lastOp.name = "MoveAfter" /\ lastOp.applied
    /\ a.err = "none"
    /\ Len(a.nodes) = 4
    /\ \E i \in 3..4 :
          /\ a.nodes[i].movedAt # Nil
          /\ After(PositionedAt(a.nodes[i - 1]), PositionedAt(a.nodes[i]))

=============================================================================
